---- MODULE Spec2Model ----
(***************************************************************************)
(* The detection-and-reaction pipeline of the frontrun bot:                *)
(*   sources -> Signal Merger -> Aggregator -> Decision Engine -> Executor *)
(* started by main() with the configuration loadEnv() returns.             *)
(*                                                                         *)
(* loadEnv (src/src/config/env.ts) and the wiring of main (the main.ts     *)
(* listing in src/README.md) are translated from the source.  The monitor  *)
(* and executor services that main() constructs are not part of the source *)
(* tree at hand; their stages follow sections 3-5 of the specification.    *)
(*                                                                         *)
(* A JavaScript number is modelled in hundredths (0.5 is 50, 100 is 10000) *)
(* with NaN and Infinity, which the loader can produce, kept apart.        *)
(***************************************************************************)
EXTENDS Integers, Sequences, FiniteSets, TLC

\* ---------------------------------------------------------------- bounds
\* Trade ids the two sources can report.
MaxIds == 3
\* Raw signals the two sources report in one run of the pipeline, duplicates
\* included.
MaxFeed == 2
\* The same for the runs that vary the retry limit or call stop().
MaxShortFeed == 2
\* The same for the runs of the Merger and the Aggregator alone, which replay
\* signals.
MaxMergeFeed == 4
\* Where the model stops counting the submission attempts of one request.
MaxAttempts == 4
\* Entries the Merger's identity cache retains (count-based eviction).
CacheSize == 2

\* ------------------------------------------------------- JavaScript numbers
\* A number is a record: a finite value v in hundredths, NaN, or Infinity.
Num(n) == [nan |-> FALSE, inf |-> FALSE, v |-> n]
NaN == [nan |-> TRUE, inf |-> FALSE, v |-> 0]
Infinity == [nan |-> FALSE, inf |-> TRUE, v |-> 0]
Unset == "undefined"

\* isNaN(x)
isNaN(x) == x.nan

\* a < b as JavaScript evaluates it: false when either side is NaN.
Lt(a, b) ==
  IF a.nan \/ b.nan THEN FALSE
  ELSE IF a.inf THEN FALSE
  ELSE IF b.inf THEN TRUE
  ELSE a.v < b.v

\* a > b
Gt(a, b) == Lt(b, a)

\* Number(s) for the strings an .env file is given in this model.  The empty
\* string converts to 0; text that is no numeric literal converts to NaN.
Number(s) ==
  CASE s = ""         -> Num(0)
    [] s = "0"        -> Num(0)
    [] s = "0.05"     -> Num(5)
    [] s = "0.1"      -> Num(10)
    [] s = "0.5"      -> Num(50)
    [] s = "1"        -> Num(100)
    [] s = "1.2"      -> Num(120)
    [] s = "1.5"      -> Num(150)
    [] s = "2"        -> Num(200)
    [] s = "3"        -> Num(300)
    [] s = "-1"       -> Num(-100)
    [] s = "100"      -> Num(10000)
    [] s = "200"      -> Num(20000)
    [] s = "300"      -> Num(30000)
    [] s = "Infinity" -> Infinity
    [] OTHER          -> NaN

\* Number(process.env.X ?? d): the default d is already a number.
NumberOr(s, d) == IF s = Unset THEN Num(d) ELSE Number(s)

\* ------------------------------------------------------ JavaScript strings
\* A string is the sequence of its characters.
Whitespace == {" ", "\t", "\n"}

HexDigits ==
  {"0", "1", "2", "3", "4", "5", "6", "7", "8", "9",
   "a", "b", "c", "d", "e", "f", "A", "B", "C", "D", "E", "F"}

\* s.trim(): the whitespace at the start and at the end is stripped.
RECURSIVE trimStart(_)
trimStart(s) ==
  IF s # << >> /\ Head(s) \in Whitespace THEN trimStart(Tail(s)) ELSE s

RECURSIVE trimEnd(_)
trimEnd(s) ==
  IF s # << >> /\ s[Len(s)] \in Whitespace THEN trimEnd(SubSeq(s, 1, Len(s) - 1)) ELSE s

trim(s) == trimEnd(trimStart(s))

\* s.startsWith(prefix)
startsWith(s, prefix) ==
  Len(s) >= Len(prefix) /\ SubSeq(s, 1, Len(prefix)) = prefix

\* s.slice(n)
slice(s, n) == SubSeq(s, n + 1, Len(s))

\* One character of s.toLowerCase().
LowerChar(c) ==
  CASE c = "A" -> "a" [] c = "B" -> "b" [] c = "C" -> "c" [] c = "D" -> "d"
    [] c = "E" -> "e" [] c = "F" -> "f" [] c = "G" -> "g" [] c = "H" -> "h"
    [] c = "P" -> "p" [] c = "S" -> "s" [] c = "T" -> "t" [] c = "W" -> "w"
    [] c = "X" -> "x" [] OTHER -> c

\* s.toLowerCase()
toLowerCase(s) == [i \in 1 .. Len(s) |-> LowerChar(s[i])]

\* /^[a-fA-F0-9]+$/.test(s)
AllHex(s) == s # << >> /\ \A i \in 1 .. Len(s) : s[i] \in HexDigits

\* ------------------------------------------------------ validation.util.ts
\* The lengths the two formats require.
AddressHexLength == 40
PrivateKeyHexLength == 64

\* A thrown ValidationError, and a returned value.
ValidationError(field) == [ok |-> FALSE, error |-> "ValidationError", field |-> field]
Returned(v) == [ok |-> TRUE, value |-> v]

\* isValidEthereumAddress: /^0x[a-fA-F0-9]{40}$/i on the trimmed text; the i
\* flag lets the x of the prefix be a capital X as well.
isValidEthereumAddress(address) ==
  /\ address # << >>
  /\ LET t == trim(address)
     IN  /\ Len(t) = AddressHexLength + 2
         /\ t[1] = "0"
         /\ t[2] \in {"x", "X"}
         /\ AllHex(slice(t, 2))

\* isValidPrivateKey: an optional 0x, then exactly 64 hex characters.
isValidPrivateKey(key) ==
  /\ key # << >>
  /\ LET trimmed  == trim(key)
         cleanKey == IF startsWith(trimmed, <<"0", "x">>) THEN slice(trimmed, 2) ELSE trimmed
     IN  Len(cleanKey) = PrivateKeyHexLength /\ AllHex(cleanKey)

SuiPrefix == <<"s", "u", "i", "p", "r", "i", "v", "k", "e", "y">>

\* A normalizePrivateKey that puts 0x before whatever valid text it got.
normalizePrivateKey_PrefixesAll(key) ==
  IF key = << >> \/ ~isValidPrivateKey(trim(key)) THEN ValidationError("PRIVATE_KEY")
  ELSE Returned(<<"0", "x">> \o trim(key))

\* normalizePrivateKey
normalizePrivateKey(key) ==
  IF key = << >> THEN ValidationError("PRIVATE_KEY")
  ELSE LET trimmed == trim(key)
       IN  IF startsWith(trimmed, SuiPrefix) THEN ValidationError("PRIVATE_KEY")
           ELSE IF /\ Len(trimmed) > PrivateKeyHexLength
                   /\ ~startsWith(trimmed, <<"0", "x">>)
                   /\ ~AllHex(trimmed)
             THEN ValidationError("PRIVATE_KEY")
           ELSE IF ~isValidPrivateKey(trimmed) THEN ValidationError("PRIVATE_KEY")
           ELSE Returned(<<"0", "x">> \o
                  (IF startsWith(trimmed, <<"0", "x">>) THEN slice(trimmed, 2) ELSE trimmed))

\* normalizeAddress
normalizeAddress(address) ==
  IF address = << >> THEN ValidationError("ADDRESS")
  ELSE LET trimmed == trim(address)
       IN  IF ~isValidEthereumAddress(trimmed) THEN ValidationError("ADDRESS")
           ELSE Returned(toLowerCase(trimmed))

\* A validateAddresses that leaves the invalid addresses out and returns the
\* rest.
validateAddresses_DropsInvalid(addresses) ==
  LET valid == SelectSeq(addresses, LAMBDA a : normalizeAddress(a).ok)
  IN  IF Len(valid) = 0 THEN ValidationError("TARGET_ADDRESSES")
      ELSE Returned([i \in 1 .. Len(valid) |-> normalizeAddress(valid[i]).value])

\* validateAddresses: every address is normalized, the errors are collected,
\* and one collected error throws for the whole list.
validateAddresses(addresses) ==
  IF Len(addresses) = 0 THEN ValidationError("TARGET_ADDRESSES")
  ELSE LET errors == { i \in 1 .. Len(addresses) : ~normalizeAddress(addresses[i]).ok }
           normalized == [i \in 1 .. Len(addresses) |-> normalizeAddress(addresses[i]).value]
       IN  IF errors # {} THEN ValidationError("TARGET_ADDRESSES")
           ELSE Returned(normalized)

\* The first position of character c in s, or 0.
IndexOf(s, c) ==
  IF \E i \in 1 .. Len(s) : s[i] = c
    THEN CHOOSE i \in 1 .. Len(s) : s[i] = c /\ \A j \in 1 .. (i - 1) : s[j] # c
    ELSE 0

\* s.split(',')
RECURSIVE split(_)
split(s) ==
  IF IndexOf(s, ",") = 0 THEN << s >>
  ELSE << SubSeq(s, 1, IndexOf(s, ",") - 1) >> \o split(slice(s, IndexOf(s, ",")))

\* list.filter(Boolean): the empty strings are dropped.
RECURSIVE filterBoolean(_)
filterBoolean(list) ==
  IF list = << >> THEN << >>
  ELSE (IF Head(list) = << >> THEN << >> ELSE << Head(list) >>) \o filterBoolean(Tail(list))

\* The letters of a URL scheme.
SchemeLetters ==
  {"h", "t", "p", "s", "w", "f", "H", "T", "P", "S", "W", "F"}

\* new URL(url).protocol, or "" when the constructor throws: blanks around
\* the text are stripped, a scheme runs up to the first colon, and http and
\* https need a non-empty host without blanks.
UrlProtocol(text) ==
  LET url    == trim(text)
      colon  == IndexOf(url, ":")
      scheme == toLowerCase(SubSeq(url, 1, colon - 1))
      rest   == slice(url, colon)
      slashes == { i \in 1 .. Len(rest) : \A j \in 1 .. i : rest[j] = "/" }
      host   == slice(rest, Cardinality(slashes))
  IN  IF colon <= 1 \/ \E i \in 1 .. (colon - 1) : url[i] \notin SchemeLetters THEN ""
      ELSE IF scheme = <<"h", "t", "t", "p">> \/ scheme = <<"h", "t", "t", "p", "s">>
        THEN IF host = << >> \/ host[1] \in {"/", ":"}
                \/ \E i \in 1 .. Len(host) : host[i] \in Whitespace
               THEN ""
               ELSE IF scheme = <<"h", "t", "t", "p">> THEN "http:" ELSE "https:"
      ELSE "other:"

\* isValidRpcUrl
isValidRpcUrl(url) ==
  url # << >> /\ UrlProtocol(url) \in {"http:", "https:"}

\* JSON.parse(val) for the JSON this model feeds: an array of plain string
\* literals.  Anything else is no JSON array.
JsonItem(text) ==
  LET t == trim(text)
  IN  IF /\ Len(t) >= 2
         /\ t[1] = "\""
         /\ t[Len(t)] = "\""
         /\ \A i \in 2 .. (Len(t) - 1) : t[i] \notin {"\"", "\\"}
        THEN Returned(SubSeq(t, 2, Len(t) - 1))
        ELSE [ok |-> FALSE]

JsonStringArray(val) ==
  LET t     == trim(val)
      inner == SubSeq(t, 2, Len(t) - 1)
      items == split(inner)
  IN  IF Len(t) < 2 \/ t[1] # "[" \/ t[Len(t)] # "]" THEN [ok |-> FALSE]
      ELSE IF trim(inner) = << >> THEN Returned(<< >>)
      ELSE IF \E i \in 1 .. Len(items) : ~JsonItem(items[i]).ok THEN [ok |-> FALSE]
      ELSE Returned([i \in 1 .. Len(items) |-> JsonItem(items[i]).value])

\* ------------------------------------------------------------------ loadEnv
\* A check that also turns away zero.
FrontrunMultiplierRejected_Zero(m) ==
  isNaN(m) \/ ~Gt(m, Num(0)) \/ Gt(m, Num(100))

\* The frontrun size multiplier is rejected when NaN, below 0 or above 1.
FrontrunMultiplierRejected(m) == isNaN(m) \/ Lt(m, Num(0)) \/ Gt(m, Num(100))

\* The gas price multiplier is rejected when NaN or below 1.0.
GasMultiplierRejected(g) == isNaN(g) \/ Lt(g, Num(100))

\* The poll interval is rejected when NaN or below 0.1 seconds.
FetchIntervalRejected(f) == isNaN(f) \/ Lt(f, Num(10))

\* process.env[name] for the variables that hold text: unset and empty are
\* both falsy, which is all that loadEnv asks of them.
EnvText(e, name) == IF name \in DOMAIN e THEN e[name] ELSE << >>

\* parseList: a JSON array, or comma separated, trimmed, blanks dropped.
parseList(val) ==
  IF val = << >> THEN << >>
  ELSE IF JsonStringArray(val).ok THEN JsonStringArray(val).value
  ELSE LET parts == split(val)
       IN  filterBoolean([i \in 1 .. Len(parts) |-> trim(parts[i])])

\* The validations of the text variables, in the order loadEnv makes them:
\* the field of the first ValidationError, or "" when none is thrown.
TextError(e) ==
  IF ~validateAddresses(parseList(EnvText(e, "TARGET_ADDRESSES"))).ok
    THEN "TARGET_ADDRESSES"
  ELSE IF EnvText(e, "PUBLIC_KEY") = << >> THEN "PUBLIC_KEY"
  ELSE IF ~normalizeAddress(EnvText(e, "PUBLIC_KEY")).ok THEN "ADDRESS"
  ELSE IF EnvText(e, "PRIVATE_KEY") = << >> THEN "PRIVATE_KEY"
  ELSE IF ~normalizePrivateKey(EnvText(e, "PRIVATE_KEY")).ok THEN "PRIVATE_KEY"
  ELSE IF EnvText(e, "RPC_URL") = << >> THEN "RPC_URL"
  ELSE IF ~isValidRpcUrl(trim(EnvText(e, "RPC_URL"))) THEN "RPC_URL"
  ELSE ""

\* The first numeric validation that throws, or "" when none does.
NumericError(e) ==
  IF FetchIntervalRejected(NumberOr(e.FETCH_INTERVAL, 100))
    THEN "FETCH_INTERVAL"
  ELSE IF FrontrunMultiplierRejected(NumberOr(e.FRONTRUN_SIZE_MULTIPLIER, 50))
    THEN "FRONTRUN_SIZE_MULTIPLIER"
  ELSE IF GasMultiplierRejected(NumberOr(e.GAS_PRICE_MULTIPLIER, 120))
    THEN "GAS_PRICE_MULTIPLIER"
  ELSE ""

\* The RuntimeEnv literal: the remaining numeric fields are converted and
\* stored as they are.  (The optional fields that are copied through
\* unchanged, the Mongo URI, the USDC contract and the API credentials, are
\* left out.)
RuntimeEnv(e) ==
  [ targetAddresses          |-> validateAddresses(parseList(EnvText(e, "TARGET_ADDRESSES"))).value,
    proxyWallet              |-> normalizeAddress(EnvText(e, "PUBLIC_KEY")).value,
    privateKey               |-> normalizePrivateKey(EnvText(e, "PRIVATE_KEY")).value,
    rpcUrl                   |-> trim(EnvText(e, "RPC_URL")),
    fetchIntervalSeconds     |-> NumberOr(e.FETCH_INTERVAL, 100),
    tradeMultiplier          |-> NumberOr(e.TRADE_MULTIPLIER, 100),
    retryLimit               |-> NumberOr(e.RETRY_LIMIT, 300),
    aggregationEnabled       |->
      (IF e.TRADE_AGGREGATION_ENABLED = Unset THEN "false"
       ELSE e.TRADE_AGGREGATION_ENABLED) = "true",
    aggregationWindowSeconds |-> NumberOr(e.TRADE_AGGREGATION_WINDOW_SECONDS, 30000),
    minTradeSizeUsd          |-> NumberOr(e.MIN_TRADE_SIZE_USD, 10000),
    frontrunSizeMultiplier   |-> NumberOr(e.FRONTRUN_SIZE_MULTIPLIER, 50),
    gasPriceMultiplier       |-> NumberOr(e.GAS_PRICE_MULTIPLIER, 120) ]

\* loadEnv(): the RuntimeEnv, or process.exit(1) after a ValidationError.
loadEnv(e) ==
  IF TextError(e) # "" THEN [exit |-> TRUE, field |-> TextError(e)]
  ELSE IF NumericError(e) # "" THEN [exit |-> TRUE, field |-> NumericError(e)]
  ELSE [exit |-> FALSE, env |-> RuntimeEnv(e)]

\* n times the character c.
Repeat(c, n) == [i \in 1 .. n |-> c]

\* Well-formed values of the required variables.
SampleAddress == <<"0", "x">> \o Repeat("a", AddressHexLength)
SamplePrivateKey == <<"0", "x">> \o Repeat("1", PrivateKeyHexLength)
SampleRpcUrl == <<"h", "t", "t", "p", "s", ":", "/", "/", "r", "p", "c">>

\* The environment of one run of the pipeline.  The required variables are
\* set and well-formed; the numeric ones a claim does not vary keep the value
\* of an .env file that does not set them.
EnvOf(frontrun, retry, minSize, aggregation) ==
  [ TARGET_ADDRESSES                 |-> SampleAddress,
    PUBLIC_KEY                       |-> SampleAddress,
    PRIVATE_KEY                      |-> SamplePrivateKey,
    RPC_URL                          |-> SampleRpcUrl,
    FETCH_INTERVAL                   |-> Unset,
    FRONTRUN_SIZE_MULTIPLIER         |-> frontrun,
    GAS_PRICE_MULTIPLIER             |-> Unset,
    TRADE_MULTIPLIER                 |-> Unset,
    RETRY_LIMIT                      |-> retry,
    TRADE_AGGREGATION_ENABLED        |-> aggregation,
    TRADE_AGGREGATION_WINDOW_SECONDS |-> Unset,
    MIN_TRADE_SIZE_USD               |-> minSize ]

\* ------------------------------------------------------------------- state
VARIABLES
  env,       \* process.env, as main() finds it
  cfg,       \* what loadEnv() made of it
  proc,      \* where main() is: loading, connecting, starting, and then the
             \* pipeline's lifecycle: running, stopping, stopped, or exited
  feedLeft,  \* raw signals the sources have yet to report in this run
  replay,    \* whether raw signals already reported are fed in again
  arrivals,  \* per id and source: raw signals that reached the merge point
  cache,     \* Merger: the identity cache, oldest entry first
  forwards,  \* per id: how often the Merger forwarded it downstream
  windows,   \* Aggregator: the open window of each key
  detected,  \* the AggregatedSignals handed on and not yet decided, in order
  decision,  \* Decision Engine: the disposition it recorded last
  locked,    \* Decision Engine: the keys marked in flight
  active,    \* Executor: per key, the requests whose outcome is not terminal
  outcome,   \* Executor: the terminal ExecutionOutcome it published last
  calls,     \* per key: submitOrder calls made for its latest request
  exitCode,  \* the code the process exited with, or NotExited
  client,    \* the call of createPolymarketClient: where it is, what it did
  call       \* a utility function applied to an input, and its result

\* No utility function is being applied.
NoCall == [fn |-> "none"]

\* What the pipeline's stages keep.
pipeline == << feedLeft, replay, arrivals, cache, forwards, windows, detected, decision,
               locked, active, outcome, calls >>

vars == << env, cfg, proc, feedLeft, replay, arrivals, cache, forwards, windows, detected, decision,
           locked, active, outcome, calls, exitCode, client, call >>

\* ------------------------------------------------------------- data model
Ids == 1 .. MaxIds

\* The trades the watched account places: one account, one market, and per
\* id a side and a size (USD, in hundredths).
SideOf(id) == IF id % 3 = 0 THEN "sell" ELSE "buy"
SizeOf(id) == CASE id % 3 = 1 -> 50000
                [] id % 3 = 2 -> 15000
                [] OTHER      -> 20000

TradeSignal(id, src, conf) ==
  [ id |-> id, sourceType |-> src, account |-> "0xa", marketId |-> "m1",
    side |-> SideOf(id), sizeUsd |-> SizeOf(id), confirmationState |-> conf ]

\* The (account, market, side) key of a signal.
KeyOf(sig) == << sig.account, sig.marketId, sig.side >>

Keys == { KeyOf(TradeSignal(id, "live", "pending")) : id \in Ids }

Sources == {"live", "polled"}

\* What each source can report: the live feed sees pending transactions, the
\* poll path may find the trade confirmed already.
RawSignals ==
  { TradeSignal(id, "live", "pending") : id \in Ids }
    \cup { TradeSignal(id, "polled", "confirmed") : id \in Ids }

NoWindow == [open |-> FALSE, netSizeUsd |-> 0, memberIds |-> {}]

NoDecision == "none"

NoOutcome == [key |-> << >>, status |-> "none", attempts |-> 0, error |-> "none"]

\* A sequence without its i-th element.
RemoveAt(s, i) == [j \in 1 .. (Len(s) - 1) |-> IF j < i THEN s[j] ELSE s[j + 1]]

Min(a, b) == IF a < b THEN a ELSE b

\* ----------------------------------------------------------- Signal Merger
CachedIds == { cache[i].id : i \in 1 .. Len(cache) }

\* A Merger that takes every signal for new.
Seen_Never(id) == FALSE

\* The identity check: has this id been recorded, and is it still retained?
Seen(id) == id \in CachedIds

\* A cache that evicts one entry too early.
Remember_EvictsEarly(c, sig) ==
  LET entry == [id |-> sig.id, confirmationState |-> sig.confirmationState]
  IN  IF Len(c) >= CacheSize - 1 /\ c # << >> THEN Append(Tail(c), entry)
      ELSE Append(c, entry)

\* Recording an id in the bounded cache evicts the oldest entry when full.
Remember(c, sig) ==
  LET entry == [id |-> sig.id, confirmationState |-> sig.confirmationState]
  IN  IF Len(c) >= CacheSize THEN Append(Tail(c), entry) ELSE Append(c, entry)

\* confirmed is newer information than pending, pending newer than unknown.
Rank(conf) == CASE conf = "confirmed" -> 2 [] conf = "pending" -> 1 [] OTHER -> 0

\* A duplicate is dropped; it updates the original's confirmationState when it
\* carries newer information.
Refresh(c, sig) ==
  [ i \in 1 .. Len(c) |->
      IF c[i].id = sig.id /\ Rank(sig.confirmationState) > Rank(c[i].confirmationState)
        THEN [c[i] EXCEPT !.confirmationState = sig.confirmationState]
        ELSE c[i] ]

\* --------------------------------------------------------------- Aggregator
\* A window that keeps the size of its latest signal only.
Accumulate_KeepsLast(w, sig) ==
  [ open       |-> TRUE,
    netSizeUsd |-> sig.sizeUsd,
    memberIds  |-> w.memberIds \cup {sig.id} ]

\* A unique signal opens the window of its key or adds to the open one.
Accumulate(w, sig) ==
  [ open       |-> TRUE,
    netSizeUsd |-> w.netSizeUsd + sig.sizeUsd,
    memberIds  |-> w.memberIds \cup {sig.id} ]

AggregatedSignal(k, w) ==
  [key |-> k, netSizeUsd |-> w.netSizeUsd, memberIds |-> w.memberIds]

\* The Merger's downstream: into the key's window when aggregation is enabled,
\* else straight on as a one-member AggregatedSignal.
Forward(sig) ==
  IF cfg.env.aggregationEnabled
    THEN /\ windows' = [windows EXCEPT ![KeyOf(sig)] = Accumulate(@, sig)]
         /\ detected' = detected
    ELSE /\ detected' = Append(detected, AggregatedSignal(KeyOf(sig), Accumulate(NoWindow, sig)))
         /\ windows' = windows

\* One raw signal reaches the single ordered merge point.  A source reports a
\* trade once (a pending transaction is announced once, the poll path keeps
\* its own recent-id cache); only a replay feeds the same raw signal again.
MergerReceive(sig) ==
  /\ proc = "running"
  /\ feedLeft > 0
  /\ replay \/ arrivals[sig.id][sig.sourceType] = 0
  /\ feedLeft' = feedLeft - 1
  /\ arrivals' = [arrivals EXCEPT ![sig.id][sig.sourceType] = @ + 1]
  /\ IF Seen(sig.id)
       THEN /\ cache' = Refresh(cache, sig)
            /\ UNCHANGED << forwards, windows, detected >>
       ELSE /\ cache' = Remember(cache, sig)
            /\ forwards' = [forwards EXCEPT ![sig.id] = @ + 1]
            /\ Forward(sig)
  /\ UNCHANGED << env, cfg, exitCode, client, call, proc, replay, decision, locked, active, outcome, calls >>

\* The periodic sweep finds the window of key k expired: it is sealed and
\* handed on as a unit.  (When a window expires is the clock's choice.)
Sweep(k) ==
  /\ proc = "running"
  /\ cfg.env.aggregationEnabled
  /\ windows[k].open
  /\ detected' = Append(detected, AggregatedSignal(k, windows[k]))
  /\ windows' = [windows EXCEPT ![k] = NoWindow]
  /\ UNCHANGED << env, cfg, exitCode, client, call, proc, feedLeft, replay, arrivals, cache, forwards, decision, locked,
                  active, outcome, calls >>

\* ---------------------------------------------------------- Decision Engine
\* requestedSizeUsd = netSizeUsd x frontrunSizeMultiplier (a multiplier the
\* loader has checked to be a number between 0 and 1).
RequestedSize(a) == (a.netSizeUsd * cfg.env.frontrunSizeMultiplier.v) \div 100

\* The gas price oracle's answers (30), and the hint derived from one.
GasPrices == {3000}
GasPriceHint(gas) == (gas * cfg.env.gasPriceMultiplier.v) \div 100

\* The balance oracle: the funds it finds (none, or 10,000 USD).
Balances == {0, 1000000}
hasSufficientBalance(balance, size) == size <= balance

\* Step 1, with the edge case of a request of size 0.
BelowThreshold(a) ==
  \/ Lt(Num(a.netSizeUsd), cfg.env.minTradeSizeUsd)
  \/ RequestedSize(a) = 0

\* A Decision Engine that never consults the lock table.
InFlight_NoLock(k) == FALSE

\* Step 2: the key already has an ExecutionRequest in flight.
InFlight(k) == k \in locked

\* Steps 1-3 in order: the disposition of an AggregatedSignal.
Disposition(a, balance) ==
  IF BelowThreshold(a) THEN "skipped-below-threshold"
  ELSE IF InFlight(a.key) THEN "skipped-duplicate"
  ELSE IF ~hasSufficientBalance(balance, RequestedSize(a)) THEN "skipped-insufficient-balance"
  ELSE "emitted"

ExecutionRequest(a, gas) ==
  [ requestedSizeUsd |-> RequestedSize(a),
    gasPriceHint     |-> GasPriceHint(gas),
    originSignalIds  |-> a.memberIds,
    attempts         |-> 0,
    phase            |-> "submitting",
    error            |-> "none" ]

\* executor.frontrunTrade(signal): the decision, taken under the key's lock,
\* and on "emitted" the request handed to the Executor with the key marked.
frontrunTrade(a, balance, gas) ==
  /\ decision' = Disposition(a, balance)
  /\ IF Disposition(a, balance) = "emitted"
       THEN /\ locked' = locked \cup {a.key}
            /\ active' = [active EXCEPT ![a.key] = Append(@, ExecutionRequest(a, gas))]
            /\ calls' = [calls EXCEPT ![a.key] = 0]
       ELSE UNCHANGED << locked, active, calls >>

\* A monitor that awaits each callback until its execution has finished.
DispatchReady_Serial == detected # << >> /\ \A k \in Keys : active[k] = << >>

\* Whether the monitor may hand over its next detected signal: it does not
\* wait for the promises of the callbacks it started earlier.
DispatchReady == detected # << >>

\* main's onDetectedTrade callback: async (signal) => { await
\* executor.frontrunTrade(signal) }, called with the next detected signal.
onDetectedTrade ==
  /\ proc = "running"
  /\ DispatchReady
  /\ \E balance \in Balances, gas \in GasPrices :
       frontrunTrade(Head(detected), balance, gas)
  /\ detected' = Tail(detected)
  /\ UNCHANGED << env, cfg, exitCode, client, call, proc, feedLeft, replay, arrivals, cache, forwards, windows, outcome >>

\* ------------------------------------------------------------------ Executor
SubmitResults == {"ok", "recoverable", "nonrecoverable"}

\* An Executor that gives up one attempt early.
RetryDue_OneShort(n) == Lt(Num((n + 1) * 100), cfg.env.retryLimit)

\* After a recoverable failure of attempt number n: is another attempt due?
RetryDue(n) == Lt(Num(n * 100), cfg.env.retryLimit)

\* The terminal status of an attempt, or "retry".
AttemptVerdict(result, n) ==
  IF result = "ok" THEN "submitted"
  ELSE IF result = "nonrecoverable" THEN "failed"
  ELSE IF RetryDue(n) THEN "retry"
  ELSE "failed"

\* Releasing the key's in-flight lock.
Release(k) == locked \ {k}

\* One submission attempt of the i-th request of key k and its result.  A
\* terminal verdict freezes the outcome and releases the lock.
Submit(k, i, result) ==
  /\ proc \in {"running", "stopping"}
  /\ i \in 1 .. Len(active[k])
  /\ active[k][i].phase = "submitting"
  /\ LET n == Min(active[k][i].attempts + 1, MaxAttempts)
         verdict == AttemptVerdict(result, n)
     IN  /\ calls' = [calls EXCEPT ![k] = Min(@ + 1, MaxAttempts)]
         /\ IF verdict = "retry"
              THEN /\ active' = [active EXCEPT ![k][i] =
                        [@ EXCEPT !.attempts = n, !.phase = "backoff", !.error = result]]
                   /\ UNCHANGED << outcome, locked >>
              ELSE /\ active' = [active EXCEPT ![k] = RemoveAt(@, i)]
                   /\ outcome' =
                        [ key      |-> k,
                          status   |-> verdict,
                          attempts |-> n,
                          error    |-> IF verdict = "failed" THEN result ELSE "none" ]
                   /\ locked' = Release(k)
  /\ UNCHANGED << env, cfg, exitCode, client, call, proc, feedLeft, replay, arrivals, cache, forwards, windows, detected, decision >>

\* The backoff delay of the i-th request of key k has elapsed.
Backoff(k, i) ==
  /\ proc \in {"running", "stopping"}
  /\ i \in 1 .. Len(active[k])
  /\ active[k][i].phase = "backoff"
  /\ active' = [active EXCEPT ![k][i].phase = "submitting"]
  /\ UNCHANGED << env, cfg, exitCode, client, call, proc, feedLeft, replay, arrivals, cache, forwards, windows, detected, decision,
                  locked, outcome, calls >>

\* ----------------------------------------------------------------- lifecycle
\* stop(): no raw signal is accepted from here on.
Stop ==
  /\ proc = "running"
  /\ proc' = "stopping"
  /\ UNCHANGED << env, cfg, exitCode, client, call, feedLeft, replay, arrivals, cache, forwards, windows, detected, decision,
                  locked, active, outcome, calls >>

\* What stop() waits for before it returns.
Drained == \A k \in Keys : active[k] = << >>

StopReturns ==
  /\ proc = "stopping"
  /\ Drained
  /\ proc' = "stopped"
  /\ UNCHANGED << env, cfg, exitCode, client, call, feedLeft, replay, arrivals, cache, forwards, windows, detected, decision,
                  locked, active, outcome, calls >>

\* --------------------------------------------------- createPolymarketClient
NoResult == [kind |-> "none", error |-> "none", wrapped |-> FALSE]

ClientIdle ==
  [pc |-> "idle", privateKey |-> << >>, normalizedPrivateKey |-> << >>,
   events |-> << >>, result |-> NoResult]

\* createPolymarketClient({ privateKey, ... }) is entered.
ClientCall(key) ==
  [pc |-> "normalizePrivateKey", privateKey |-> key, normalizedPrivateKey |-> << >>,
   events |-> << >>, result |-> NoResult]

\* A catch that wraps whatever it catches.
Caught_WrapsAll(error) == [kind |-> "thrown", error |-> "Error", wrapped |-> TRUE]

\* The outer catch: a ValidationError is thrown on as it is, everything else
\* inside a new Error "Failed to create Polymarket client: ...".
Caught(error) ==
  IF error = "ValidationError"
    THEN [kind |-> "thrown", error |-> "ValidationError", wrapped |-> FALSE]
    ELSE [kind |-> "thrown", error |-> "Error", wrapped |-> TRUE]

\* The call ends by throwing what the outer catch makes of the error.
ClientThrows(error, event) ==
  client' = [client EXCEPT !.pc = "done", !.result = Caught(error),
                           !.events = Append(@, event)]

ClientMovesOn(next, event) ==
  client' = [client EXCEPT !.pc = next, !.events = Append(@, event)]

\* const normalizedPrivateKey = normalizePrivateKey(input.privateKey)
ClientNormalizesKey ==
  /\ proc = "connecting"
  /\ client.pc = "normalizePrivateKey"
  /\ IF normalizePrivateKey(client.privateKey).ok
       THEN client' = [client EXCEPT
              !.pc = "getNetwork",
              !.events = Append(@, "normalizePrivateKey"),
              !.normalizedPrivateKey = normalizePrivateKey(client.privateKey).value]
       ELSE ClientThrows("ValidationError", "normalizePrivateKey")
  /\ UNCHANGED << env, cfg, proc, exitCode, call, pipeline >>

\* new providers.JsonRpcProvider(rpcUrl) and await provider.getNetwork(): the
\* endpoint answers or it does not.
ClientConnects(answers) ==
  /\ proc = "connecting"
  /\ client.pc = "getNetwork"
  /\ IF answers
       THEN ClientMovesOn("Wallet", "getNetwork")
       ELSE ClientThrows("Error", "getNetwork")
  /\ UNCHANGED << env, cfg, proc, exitCode, call, pipeline >>

\* new Wallet(normalizedPrivateKey, provider): ethers takes the key or throws.
ClientCreatesWallet(accepted) ==
  /\ proc = "connecting"
  /\ client.pc = "Wallet"
  /\ IF accepted THEN ClientMovesOn("address", "Wallet")
                 ELSE ClientThrows("Error", "Wallet")
  /\ UNCHANGED << env, cfg, proc, exitCode, call, pipeline >>

\* The format check of wallet.address.
ClientChecksAddress(wellFormed) ==
  /\ proc = "connecting"
  /\ client.pc = "address"
  /\ IF wellFormed THEN ClientMovesOn("ClobClient", "address")
                   ELSE ClientThrows("Error", "address")
  /\ UNCHANGED << env, cfg, proc, exitCode, call, pipeline >>

\* new ClobClient(...), and the client is returned; the constructor may throw.
ClientConstructs(constructed) ==
  /\ proc = "connecting"
  /\ client.pc = "ClobClient"
  /\ IF constructed
       THEN client' = [client EXCEPT !.pc = "done", !.events = Append(@, "ClobClient"),
                         !.result = [kind |-> "returned", error |-> "none", wrapped |-> FALSE]]
       ELSE ClientThrows("Error", "ClobClient")
  /\ UNCHANGED << env, cfg, proc, exitCode, call, pipeline >>

createPolymarketClient ==
  \/ ClientNormalizesKey
  \/ \E answers \in BOOLEAN : ClientConnects(answers)
  \/ \E accepted \in BOOLEAN : ClientCreatesWallet(accepted)
  \/ \E wellFormed \in BOOLEAN : ClientChecksAddress(wellFormed)
  \/ \E constructed \in BOOLEAN : ClientConstructs(constructed)

\* --------------------------------------------------------------------- main
NotLoaded == [exit |-> FALSE, pending |-> TRUE]

\* A loadEnv whose catch only logs the ValidationError: main goes on.
MainLoadsEnv_LogsOnly ==
  /\ proc = "loading"
  /\ cfg' = loadEnv(env)
  /\ proc' = "connecting"
  /\ exitCode' = exitCode
  /\ client' = ClientCall(EnvText(env, "PRIVATE_KEY"))
  /\ UNCHANGED << env, call, pipeline >>

\* const env = loadEnv(): a ValidationError ends in process.exit(1) inside
\* loadEnv; otherwise main goes on to createPolymarketClient.
MainLoadsEnv ==
  /\ proc = "loading"
  /\ cfg' = loadEnv(env)
  /\ IF loadEnv(env).exit
       THEN /\ proc' = "exited"
            /\ exitCode' = Append(exitCode, 1)
            /\ client' = client
       ELSE /\ proc' = "connecting"
            /\ exitCode' = exitCode
            /\ client' = ClientCall(loadEnv(env).env.privateKey)
  /\ UNCHANGED << env, call, pipeline >>

\* createPolymarketClient threw: main's catch exits with code 1, for a
\* ValidationError and for every other error.
MainCatches ==
  /\ proc = "connecting"
  /\ client.result.kind = "thrown"
  /\ proc' = "exited"
  /\ exitCode' = Append(exitCode, 1)
  /\ UNCHANGED << env, cfg, client, call, pipeline >>

\* The client is there: the balances are logged (a failure there is only
\* logged), the executor and the monitor are constructed.
MainConstructs ==
  /\ proc = "connecting"
  /\ client.result.kind = "returned"
  /\ proc' = "starting"
  /\ UNCHANGED << env, cfg, exitCode, client, call, pipeline >>

\* await monitor.start()
MainStarts ==
  /\ proc = "starting"
  /\ proc' = "running"
  /\ UNCHANGED << env, cfg, exitCode, client, call, pipeline >>

\* ------------------------------------------------------------ specification
\* main(): loadEnv(), then the services are constructed and monitor.start()
\* runs; a configuration error exits the process before any of that.
Boot(e, feed, replayed) ==
  /\ env = e
  /\ feedLeft = feed
  /\ replay = replayed
  /\ cfg = loadEnv(e)
  /\ proc = IF loadEnv(e).exit THEN "exited" ELSE "running"
  /\ arrivals = [id \in Ids |-> [src \in Sources |-> 0]]
  /\ cache = << >>
  /\ forwards = [id \in Ids |-> 0]
  /\ windows = [k \in Keys |-> NoWindow]
  /\ detected = << >>
  /\ decision = NoDecision
  /\ locked = {}
  /\ active = [k \in Keys |-> << >>]
  /\ outcome = NoOutcome
  /\ calls = [k \in Keys |-> 0]
  /\ exitCode = IF loadEnv(e).exit THEN << 1 >> ELSE << >>
  /\ client = IF loadEnv(e).exit THEN ClientIdle
              ELSE [ pc         |-> "done",
                     privateKey |-> loadEnv(e).env.privateKey,
                     normalizedPrivateKey |-> loadEnv(e).env.privateKey,
                     events     |-> <<"normalizePrivateKey", "getNetwork", "Wallet",
                                      "address", "ClobClient">>,
                     result     |-> [kind |-> "returned", error |-> "none", wrapped |-> FALSE] ]
  /\ call = NoCall

\* The pipeline as main() runs it: main() never calls stop().
Init ==
  \E frontrun \in {Unset, "0"}, minSize \in {Unset, "200"},
     aggregation \in {Unset, "true"} :
    Boot(EnvOf(frontrun, "2", minSize, aggregation), MaxFeed, FALSE)

Next ==
  \/ \E sig \in RawSignals : MergerReceive(sig)
  \/ \E k \in Keys : Sweep(k)
  \/ onDetectedTrade
  \/ \E k \in Keys, i \in 1 .. 2, r \in SubmitResults : Submit(k, i, r)
  \/ \E k \in Keys, i \in 1 .. 2 : Backoff(k, i)

Spec == Init /\ [][Next]_vars

\* The pipeline inside an application that calls stop().
InitStop ==
  \E aggregation \in {Unset, "true"}, retry \in {"2", "Infinity"} :
    Boot(EnvOf(Unset, retry, Unset, aggregation), MaxShortFeed, FALSE)

NextStop ==
  \/ \E sig \in RawSignals : MergerReceive(sig)
  \/ \E k \in Keys : Sweep(k)
  \/ onDetectedTrade
  \/ \E k \in Keys, i \in 1 .. 2, r \in SubmitResults : Submit(k, i, r)
  \/ \E k \in Keys, i \in 1 .. 2 : Backoff(k, i)
  \/ Stop
  \/ StopReturns

SpecStop == InitStop /\ [][NextStop]_vars

\* The Merger and the Aggregator alone: data flows strictly left to right, so
\* what they do does not depend on the stages after them.  Everything they
\* hand on stays in "detected".  The feed may be replayed.
InitMerge ==
  \E aggregation \in {Unset, "true"}, replayed \in BOOLEAN :
    Boot(EnvOf(Unset, Unset, Unset, aggregation), MaxMergeFeed, replayed)

NextMerge ==
  \/ \E sig \in RawSignals : MergerReceive(sig)
  \/ \E k \in Keys : Sweep(k)

SpecMerge == InitMerge /\ [][NextMerge]_vars

\* The pipeline under every RETRY_LIMIT an .env file can hold: unset, counts,
\* zero, a negative number, Infinity, and text that is no number.
RetryLimits == {Unset, "1", "2", "0", "-1", "Infinity", "abc"}

InitRetry ==
  \E retry \in RetryLimits :
    Boot(EnvOf(Unset, retry, Unset, Unset), MaxShortFeed, FALSE)

\* Aggregation is off, so the periodic sweep has nothing to seal.
NextRetry ==
  \/ \E sig \in RawSignals : MergerReceive(sig)
  \/ onDetectedTrade
  \/ \E k \in Keys, i \in 1 .. 2, r \in SubmitResults : Submit(k, i, r)
  \/ \E k \in Keys, i \in 1 .. 2 : Backoff(k, i)

SpecRetry == InitRetry /\ [][NextRetry]_vars

\* The scheduling of the Executor: a submission in progress returns, and a
\* backoff delay elapses.
ExecutorFairness ==
  \A k \in Keys :
    /\ WF_vars(\E i \in 1 .. 2, r \in SubmitResults : Submit(k, i, r))
    /\ WF_vars(\E i \in 1 .. 2 : Backoff(k, i))

FairSpecRetry == InitRetry /\ [][NextRetry]_vars /\ ExecutorFairness

\* stop() returns once what it waits for has happened.
FairSpecStop ==
  InitStop /\ [][NextStop]_vars /\ ExecutorFairness /\ WF_vars(StopReturns)

\* ------------------------------------------------------- main() from its start
\* Texts an .env file may give a numeric variable.
NumericTexts ==
  {Unset, "", "abc", "-1", "0", "0.05", "0.1", "0.5", "1", "1.2", "2", "Infinity"}

LimitTexts == {Unset, "", "abc", "-1", "2", "Infinity"}

\* 64 hex characters in both cases.
MixedHex(n) == [i \in 1 .. n |-> CASE i % 3 = 0 -> "a" [] i % 3 = 1 -> "F" [] OTHER -> "7"]

\* Texts an .env file may give PRIVATE_KEY: unset, well-formed with and without
\* prefix and blanks, and malformed in the ways normalizePrivateKey looks for.
PrivateKeyTexts ==
  { << >>,
    SamplePrivateKey,
    MixedHex(PrivateKeyHexLength),
    <<" ", " ", "0", "x">> \o MixedHex(PrivateKeyHexLength) \o <<" ", "\n">>,
    <<"\t">> \o MixedHex(PrivateKeyHexLength) \o <<" ">>,
    <<" ", " ">>,
    <<"0", "x">>,
    <<"0", "x">> \o MixedHex(PrivateKeyHexLength - 1),
    <<"0", "x">> \o MixedHex(PrivateKeyHexLength + 1),
    MixedHex(PrivateKeyHexLength + 2),
    <<"0", "X">> \o MixedHex(PrivateKeyHexLength),
    <<"0", "x">> \o MixedHex(PrivateKeyHexLength - 1) \o <<"g">>,
    <<"0", "x">> \o MixedHex(32) \o <<" ">> \o MixedHex(32),
    SuiPrefix \o MixedHex(PrivateKeyHexLength - 10),
    <<"5", "K", "z">> \o MixedHex(PrivateKeyHexLength + 20) }

\* Texts for an address.
AddressTexts ==
  { << >>,
    SampleAddress,
    <<" ", "0", "x">> \o MixedHex(AddressHexLength) \o <<" ">>,
    <<"0", "X">> \o MixedHex(AddressHexLength),
    <<"0", "x">> \o MixedHex(AddressHexLength - 1),
    MixedHex(AddressHexLength) }

\* Texts for TARGET_ADDRESSES: comma separated and JSON, good and bad.
TargetTexts ==
  { << >>,
    SampleAddress,
    SampleAddress \o <<",", " ">> \o <<"0", "x">> \o MixedHex(AddressHexLength) \o <<",">>,
    SampleAddress \o <<",">> \o MixedHex(AddressHexLength),
    <<"[", "\"">> \o SampleAddress \o <<"\"", ",", " ", "\"">> \o SampleAddress \o <<"\"", "]">>,
    <<"[", "\"">> \o SampleAddress \o <<"\"", ",", "\"", "\"", "]">>,
    <<"[", "]">> }

RpcUrlTexts ==
  { << >>,
    SampleRpcUrl,
    <<" ", "H", "T", "T", "P", ":", "/", "/", "r", "p", "c", " ">>,
    <<"w", "s", "s", ":", "/", "/", "r", "p", "c">>,
    <<"r", "p", "c">>,
    <<"h", "t", "t", "p", ":", "/", "/">> }

MainEnv(target, publicKey, privateKey, rpcUrl, fetch, frontrun, gas, trade, retry, window, minSize) ==
  [ TARGET_ADDRESSES                 |-> target,
    PUBLIC_KEY                       |-> publicKey,
    PRIVATE_KEY                      |-> privateKey,
    RPC_URL                          |-> rpcUrl,
    FETCH_INTERVAL                   |-> fetch,
    FRONTRUN_SIZE_MULTIPLIER         |-> frontrun,
    GAS_PRICE_MULTIPLIER             |-> gas,
    TRADE_MULTIPLIER                 |-> trade,
    RETRY_LIMIT                      |-> retry,
    TRADE_AGGREGATION_ENABLED        |-> Unset,
    TRADE_AGGREGATION_WINDOW_SECONDS |-> window,
    MIN_TRADE_SIZE_USD               |-> minSize ]

\* The environments main() is started in: the validated numeric variables
\* vary, or the unvalidated ones, or two of the text variables.
MainEnvs ==
  { MainEnv(SampleAddress, SampleAddress, SamplePrivateKey, SampleRpcUrl,
            fetch, frontrun, gas, Unset, Unset, Unset, Unset) :
      fetch \in NumericTexts, frontrun \in NumericTexts, gas \in NumericTexts }
  \cup
  { MainEnv(SampleAddress, SampleAddress, SamplePrivateKey, SampleRpcUrl,
            Unset, Unset, Unset, trade, retry, window, minSize) :
      trade \in LimitTexts, retry \in LimitTexts, window \in LimitTexts, minSize \in LimitTexts }
  \cup
  { MainEnv(target, SampleAddress, privateKey, SampleRpcUrl,
            Unset, Unset, Unset, Unset, Unset, Unset, Unset) :
      target \in TargetTexts, privateKey \in PrivateKeyTexts }
  \cup
  { MainEnv(SampleAddress, publicKey, SamplePrivateKey, rpcUrl,
            Unset, Unset, Unset, Unset, Unset, Unset, Unset) :
      publicKey \in AddressTexts, rpcUrl \in RpcUrlTexts }

\* The state main() begins in.
InitMain ==
  /\ env \in MainEnvs
  /\ cfg = NotLoaded
  /\ proc = "loading"
  /\ exitCode = << >>
  /\ client = ClientIdle
  /\ call = NoCall
  /\ feedLeft = 0
  /\ replay = FALSE
  /\ arrivals = [id \in Ids |-> [src \in Sources |-> 0]]
  /\ cache = << >>
  /\ forwards = [id \in Ids |-> 0]
  /\ windows = [k \in Keys |-> NoWindow]
  /\ detected = << >>
  /\ decision = NoDecision
  /\ locked = {}
  /\ active = [k \in Keys |-> << >>]
  /\ outcome = NoOutcome
  /\ calls = [k \in Keys |-> 0]

NextMain ==
  \/ MainLoadsEnv
  \/ createPolymarketClient
  \/ MainCatches
  \/ MainConstructs
  \/ MainStarts

SpecMain == InitMain /\ [][NextMain]_vars


\* ------------------------------------------------------------------- claims
\* The requests of key k whose outcome is not terminal.
InFlightCount(k) == Len(active[k])

\* A step in which the Decision Engine decides the signal at the head of
\* "detected" while that signal's key has a request in flight.
DecidesForKeyInFlight ==
  /\ detected # << >>
  /\ detected' = Tail(detected)
  /\ InFlightCount(Head(detected).key) > 0

Arrived(id) == arrivals[id]["live"] + arrivals[id]["polled"]

\* A step in which a raw signal with this id reaches the Merger.
Arrives(id) == arrivals'[id] # arrivals[id]

FedIds == { id \in Ids : Arrived(id) > 0 }

\* A step of the second pass: a raw signal that was fed before is fed again.
Replays(id, src) ==
  /\ arrivals[id][src] >= 1
  /\ arrivals'[id][src] = arrivals[id][src] + 1

C3_EveryRequestTerminates ==
  \A k \in Keys : (k \in locked) ~> (k \notin locked /\ active[k] = << >>)

\* A step in which the Decision Engine decides the next AggregatedSignal.
Decides == detected # << >> /\ detected' = Tail(detected)

\* C4: FRONTRUN_SIZE_MULTIPLIER = 0 is accepted by the config loader, and with
\* it the Decision Engine emits no ExecutionRequest and marks no key in flight
\* for any AggregatedSignal, also one at or above the configured minimum size;
\* every signal it decides is recorded as skipped-below-threshold.
C4_ZeroMultiplierNeverEmits ==
  /\ [](env.FRONTRUN_SIZE_MULTIPLIER = "0" =>
          /\ ~cfg.exit
          /\ cfg.env.frontrunSizeMultiplier = Num(0)
          /\ locked = {}
          /\ \A k \in Keys : active[k] = << >>
          /\ outcome = NoOutcome
          /\ decision \in {NoDecision, "skipped-below-threshold"})
  /\ [][env.FRONTRUN_SIZE_MULTIPLIER = "0" /\ Decides =>
          /\ decision' = "skipped-below-threshold"
          /\ active' = active
          /\ locked' = locked]_vars

\* With multiplier 0 and the default minimum (100 USD, below every signal's
\* size), a signal was decided and recorded as skipped-below-threshold.
C4_Witness ==
  /\ env.FRONTRUN_SIZE_MULTIPLIER = "0"
  /\ env.MIN_TRADE_SIZE_USD = Unset
  /\ ~cfg.exit
  /\ \A id \in Ids : ~Lt(Num(SizeOf(id)), cfg.env.minTradeSizeUsd)
  /\ decision = "skipped-below-threshold"

\* A step in which a request of key k reaches its terminal outcome.
Terminates(k) == Len(active'[k]) < Len(active[k])

\* C5: with retryLimit = N, a submission that fails recoverably on attempts
\* 1..k-1 and succeeds on attempt k <= N ends with status submitted and
\* attempts = k, the number of submissions made; recoverable failures before
\* the limit never end the request, and nothing is submitted after the success.
C5_SucceedsWithinLimit ==
  /\ [][\A k \in Keys : Terminates(k) =>
          /\ outcome'.key = k
          /\ outcome'.attempts = calls'[k]
          /\ outcome'.status \in {"submitted", "failed"}
          /\ (outcome'.status = "submitted") = (outcome'.error = "none")
          /\ outcome'.status = "failed" => outcome'.error \in {"recoverable", "nonrecoverable"}
          /\ outcome'.error = "recoverable" =>
               ~Lt(Num(outcome'.attempts * 100), cfg.env.retryLimit)
          /\ outcome'.status = "submitted" /\ outcome'.attempts > 1 =>
               Lt(Num((outcome'.attempts - 1) * 100), cfg.env.retryLimit)]_vars
  /\ [](outcome.status = "submitted" /\ active[outcome.key] = << >> =>
          calls[outcome.key] = outcome.attempts)

\* The spec's case: RETRY_LIMIT unset (N = 3), two recoverable failures, then
\* success on attempt 3.
C5_Witness ==
  /\ env.RETRY_LIMIT = Unset
  /\ cfg.env.retryLimit = Num(300)
  /\ outcome.status = "submitted"
  /\ outcome.attempts = 3
  /\ calls[outcome.key] = 3

\* C6: with retryLimit = N, a submission that always fails recoverably is
\* attempted exactly N times and ends with status failed, attempts = N and
\* the last error.
C6_ExactlyNAttempts ==
  outcome.status = "failed" /\ outcome.error = "recoverable" =>
    /\ Num(outcome.attempts * 100) = cfg.env.retryLimit
    /\ calls[outcome.key] = outcome.attempts \/ active[outcome.key] # << >>

\* The sum of sizeUsd over the signals with the given ids.
RECURSIVE SumSizes(_)
SumSizes(S) ==
  IF S = {} THEN 0
  ELSE LET id == CHOOSE x \in S : TRUE IN SizeOf(id) + SumSizes(S \ {id})

OpenKeys == { k \in Keys : windows[k].open }

\* In how many AggregatedSignals, sealed or open, the id is a member.
Memberships(id) ==
  Cardinality({ i \in 1 .. Len(detected) : id \in detected[i].memberIds })
    + Cardinality({ k \in OpenKeys : id \in windows[k].memberIds })

RECURSIVE SumSealed(_)
SumSealed(i) == IF i = 0 THEN 0 ELSE detected[i].netSizeUsd + SumSealed(i - 1)

RECURSIVE SumOpen(_)
SumOpen(K) ==
  IF K = {} THEN 0
  ELSE LET k == CHOOSE x \in K : TRUE IN windows[k].netSizeUsd + SumOpen(K \ {k})

\* The netSizeUsd of all AggregatedSignals together, sealed and open.
TotalNet == SumSealed(Len(detected)) + SumOpen(OpenKeys)

RECURSIVE TotalForwarded(_)
TotalForwarded(S) ==
  IF S = {} THEN 0
  ELSE LET id == CHOOSE x \in S : TRUE
       IN  forwards[id] * SizeOf(id) + TotalForwarded(S \ {id})

\* No sealed AggregatedSignal changes, and a signal forwarded for a key with
\* no open window starts a window of its own.
SealedStaysSealed ==
  /\ \A i \in 1 .. Len(detected) : Len(detected') >= i /\ detected'[i] = detected[i]
  /\ \A id \in Ids :
       LET k == KeyOf(TradeSignal(id, "live", "pending"))
       IN  forwards'[id] > forwards[id] /\ ~windows[k].open =>
             windows'[k] = [open |-> TRUE, netSizeUsd |-> SizeOf(id), memberIds |-> {id}]

C8_CleanShutdown ==
  /\ [][proc # "running" => arrivals' = arrivals /\ forwards' = forwards]_vars
  /\ [](proc = "stopped" => Drained /\ locked = {})
  /\ \A k \in Keys : (proc = "stopping" /\ active[k] # << >>) ~> (active[k] = << >>)
  /\ (proc = "stopping") ~> (proc = "stopped")

\* The key of trade id.
KeyOfId(id) == KeyOf(TradeSignal(id, "live", "pending"))

Loaded == cfg # NotLoaded

\* loadEnv has returned a RuntimeEnv.
ConfigReturned == Loaded /\ ~cfg.exit

\* The texts that are a number, and what a reader takes them to mean
\* (hundredths); every other text but Infinity is no number.
NumeralValue(text) ==
  CASE text = "-1" -> -100 [] text = "0" -> 0 [] text = "0.05" -> 5
    [] text = "0.1" -> 10 [] text = "0.5" -> 50 [] text = "1" -> 100
    [] text = "1.2" -> 120 [] text = "2" -> 200

Numerals == {"-1", "0", "0.05", "0.1", "0.5", "1", "1.2", "2"}

\* A set value that is not a number, or is one outside low .. high (high < 0:
\* no upper end).  Infinity counts as a number above every upper end.
Invalid(text, low, high) ==
  /\ text # Unset
  /\ \/ text \notin Numerals \cup {"Infinity"}
     \/ text \in Numerals /\ NumeralValue(text) < low
     \/ text \in Numerals /\ high >= 0 /\ NumeralValue(text) > high
     \/ text = "Infinity" /\ high >= 0

\* C11: every RuntimeEnv that loadEnv returns has 0 <= frontrunSizeMultiplier
\* <= 1, gasPriceMultiplier >= 1.0 and fetchIntervalSeconds >= 0.1; a
\* non-numeric or out-of-range FRONTRUN_SIZE_MULTIPLIER, GAS_PRICE_MULTIPLIER
\* or FETCH_INTERVAL gives no config; an unset one takes its default (0.5,
\* 1.2, 1).
C11_ValidatedRanges ==
  /\ ConfigReturned =>
       /\ ~isNaN(cfg.env.frontrunSizeMultiplier)
       /\ ~Lt(cfg.env.frontrunSizeMultiplier, Num(0))
       /\ ~Gt(cfg.env.frontrunSizeMultiplier, Num(100))
       /\ ~isNaN(cfg.env.gasPriceMultiplier)
       /\ ~Lt(cfg.env.gasPriceMultiplier, Num(100))
       /\ ~isNaN(cfg.env.fetchIntervalSeconds)
       /\ ~Lt(cfg.env.fetchIntervalSeconds, Num(10))
       /\ env.FRONTRUN_SIZE_MULTIPLIER = Unset => cfg.env.frontrunSizeMultiplier = Num(50)
       /\ env.GAS_PRICE_MULTIPLIER = Unset => cfg.env.gasPriceMultiplier = Num(120)
       /\ env.FETCH_INTERVAL = Unset => cfg.env.fetchIntervalSeconds = Num(100)
  /\ Loaded /\ ( \/ Invalid(env.FRONTRUN_SIZE_MULTIPLIER, 0, 100)
                 \/ Invalid(env.GAS_PRICE_MULTIPLIER, 100, -1)
                 \/ Invalid(env.FETCH_INTERVAL, 10, -1) )
       => cfg.exit

\* C12: in every RuntimeEnv that loadEnv returns, retryLimit, minTradeSizeUsd,
\* tradeMultiplier and aggregationWindowSeconds are numbers, not NaN and not
\* negative; an invalid RETRY_LIMIT, MIN_TRADE_SIZE_USD, TRADE_MULTIPLIER or
\* TRADE_AGGREGATION_WINDOW_SECONDS gives a configuration error and no config.
C12_AllNumericsValidated ==
  /\ ConfigReturned =>
       \A n \in { cfg.env.retryLimit, cfg.env.minTradeSizeUsd,
                  cfg.env.tradeMultiplier, cfg.env.aggregationWindowSeconds } :
         ~isNaN(n) /\ ~Lt(n, Num(0))
  /\ Loaded /\ ( \/ Invalid(env.RETRY_LIMIT, 0, -1)
                 \/ Invalid(env.MIN_TRADE_SIZE_USD, 0, -1)
                 \/ Invalid(env.TRADE_MULTIPLIER, 0, -1)
                 \/ Invalid(env.TRADE_AGGREGATION_WINDOW_SECONDS, 0, -1) )
       => cfg.exit

\* A validation of loadEnv fails for the environment at hand: a required
\* variable is missing, or an address, the key, the URL or a checked numeric
\* range is invalid.
ConfigurationError ==
  \/ \E name \in {"PUBLIC_KEY", "PRIVATE_KEY", "RPC_URL"} : EnvText(env, name) = << >>
  \/ ~validateAddresses(parseList(EnvText(env, "TARGET_ADDRESSES"))).ok
  \/ ~normalizeAddress(EnvText(env, "PUBLIC_KEY")).ok
  \/ ~normalizePrivateKey(EnvText(env, "PRIVATE_KEY")).ok
  \/ ~isValidRpcUrl(trim(EnvText(env, "RPC_URL")))
  \/ FetchIntervalRejected(NumberOr(env.FETCH_INTERVAL, 100))
  \/ FrontrunMultiplierRejected(NumberOr(env.FRONTRUN_SIZE_MULTIPLIER, 50))
  \/ GasMultiplierRejected(NumberOr(env.GAS_PRICE_MULTIPLIER, 120))

\* The pipeline as main finds it: nothing constructed, nothing started.
Untouched ==
  /\ feedLeft = 0 /\ detected = << >> /\ locked = {}
  /\ decision = "none" /\ outcome.status = "none"

\* C13: a configuration error is fatal at startup: when a validation of
\* loadEnv fails, loadEnv returns no RuntimeEnv, the process exits with code 1,
\* and neither the client connection, the executor and monitor construction
\* nor monitor.start() is ever reached.
C13_ConfigErrorIsFatal ==
  Loaded /\ ConfigurationError =>
    /\ cfg.exit
    /\ proc = "exited"
    /\ exitCode = << 1 >>
    /\ client = ClientIdle
    /\ Untouched

C13_Witness ==
  /\ Loaded /\ ConfigurationError
  /\ cfg.exit /\ cfg.field = "RPC_URL"
  /\ proc = "exited" /\ exitCode = << 1 >>

\* ------------------------------------------- validateAddresses on its own
\* validateAddresses applied to every list of at most MaxListLen texts.
MaxListLen == 3

\* The services of main are not built while a function is applied on its own.
PipelineNotBuilt ==
  /\ feedLeft = 0
  /\ replay = FALSE
  /\ arrivals = [id \in Ids |-> [src \in Sources |-> 0]]
  /\ cache = << >>
  /\ forwards = [id \in Ids |-> 0]
  /\ windows = [k \in Keys |-> NoWindow]
  /\ detected = << >>
  /\ decision = NoDecision
  /\ locked = {}
  /\ active = [k \in Keys |-> << >>]
  /\ outcome = NoOutcome
  /\ calls = [k \in Keys |-> 0]

AddressLists == UNION { [1 .. n -> AddressTexts] : n \in 0 .. MaxListLen }

InitValidate ==
  /\ env = EnvOf(Unset, Unset, Unset, Unset)
  /\ cfg = NotLoaded
  /\ proc = "loading"
  /\ exitCode = << >>
  /\ client = ClientIdle
  /\ \E addresses \in AddressLists :
       call = [fn |-> "validateAddresses", input |-> addresses,
               done |-> FALSE, result |-> [ok |-> FALSE]]
  /\ PipelineNotBuilt

\* const targetAddresses = validateAddresses(rawTargetAddresses)
ValidateAddressesCall ==
  /\ call.fn = "validateAddresses"
  /\ ~call.done
  /\ call' = [call EXCEPT !.done = TRUE, !.result = validateAddresses(call.input)]
  /\ UNCHANGED << env, cfg, proc, exitCode, client, pipeline >>

NextValidate == ValidateAddressesCall

SpecValidate == InitValidate /\ [][NextValidate]_vars

\* validateAddresses has been applied.
Validated == call.fn = "validateAddresses" /\ call.done

\* The text is 0 and one of the given prefix letters, followed by 40 hex
\* characters, once the whitespace around it is taken away.
PrefixedHex(text, letters) ==
  LET t == trim(text)
  IN  /\ Len(t) = 42
      /\ t[1] = "0"
      /\ t[2] \in letters
      /\ \A i \in 3 .. 42 : t[i] \in HexDigits

\* All-or-nothing for a list whose addresses may start with 0 and one of
\* the given letters: an empty list or one bad element throws for
\* TARGET_ADDRESSES, every other list comes back trimmed and lowercased,
\* element by element.
AllOrNothing(letters) ==
  Validated =>
    IF call.input = << >> \/ \E i \in 1 .. Len(call.input) : ~PrefixedHex(call.input[i], letters)
      THEN call.result = [ok |-> FALSE, error |-> "ValidationError", field |-> "TARGET_ADDRESSES"]
      ELSE /\ call.result.ok
           /\ Len(call.result.value) = Len(call.input)
           /\ \A i \in 1 .. Len(call.input) :
                call.result.value[i] = toLowerCase(trim(call.input[i]))

ClientKeys ==
  PrivateKeyTexts
    \cup { <<" ">> \o key : key \in PrivateKeyTexts }
    \cup { key \o <<"\n">> : key \in PrivateKeyTexts }

InitClient ==
  /\ env = EnvOf(Unset, Unset, Unset, Unset)
  /\ cfg = NotLoaded
  /\ proc = "connecting"
  /\ exitCode = << >>
  /\ \E key \in ClientKeys : client = ClientCall(key)
  /\ call = NoCall
  /\ PipelineNotBuilt

NextClient == createPolymarketClient

SpecClient == InitClient /\ [][NextClient]_vars

\* The text is 64 hex characters, with or without 0x before them and with or
\* without whitespace around them.
HexKey(text) ==
  LET t    == trim(text)
      body == IF Len(t) >= 2 /\ t[1] = "0" /\ t[2] = "x" THEN SubSeq(t, 3, Len(t)) ELSE t
  IN  Len(body) = 64 /\ \A i \in 1 .. 64 : body[i] \in HexDigits

\* The steps createPolymarketClient has taken so far, as a set.
Attempted == { client.events[i] : i \in 1 .. Len(client.events) }

\* C15: createPolymarketClient validates the private key before anything
\* else; for an invalid key it throws the ValidationError itself, unwrapped,
\* with no getNetwork and no wallet creation; the wallet is created only after
\* getNetwork has succeeded; every other failure is thrown as a wrapped Error.
C15_ValidatesKeyFirst ==
  /\ client.events # << >> => client.events[1] = "normalizePrivateKey"
  /\ ~HexKey(client.privateKey) =>
       /\ Attempted \subseteq {"normalizePrivateKey"}
       /\ client.pc \in {"normalizePrivateKey", "done"}
       /\ client.pc = "done" =>
            client.result = [kind |-> "thrown", error |-> "ValidationError", wrapped |-> FALSE]
  /\ "Wallet" \in Attempted =>
       /\ Len(client.events) >= 3
       /\ client.events[2] = "getNetwork"
       /\ client.events[3] = "Wallet"
  /\ client.pc = "done" /\ client.events[Len(client.events)] = "getNetwork" =>
       client.result.kind = "thrown" /\ "Wallet" \notin Attempted
  /\ client.pc = "done" /\ HexKey(client.privateKey) =>
       \/ client.result = [kind |-> "returned", error |-> "none", wrapped |-> FALSE]
       \/ client.result = [kind |-> "thrown", error |-> "Error", wrapped |-> TRUE]

C15_Witness ==
  /\ client.pc = "done"
  /\ Len(client.privateKey) > 64
  /\ ~HexKey(client.privateKey)
  /\ client.result.error = "ValidationError"
  /\ ~client.result.wrapped

\* The key loadEnv was given and the key it returned.
GivenKey == EnvText(env, "PRIVATE_KEY")
ReturnedKey == cfg.env.privateKey

\* The last 64 characters of a text.
Last64(text) == SubSeq(text, Len(text) - 63, Len(text))

\* C16: normalizePrivateKey is idempotent and canonical: a key it accepts is 64
\* hex characters with or without 0x and surrounding whitespace, the result is
\* 0x followed by the same 64 hex characters, and normalizing the result gives
\* the result again; so createPolymarketClient, called with the privateKey of
\* a RuntimeEnv that loadEnv returned, never throws a ValidationError.
C16_IdempotentCanonical ==
  ConfigReturned =>
    /\ HexKey(GivenKey)
    /\ ReturnedKey = <<"0", "x">> \o Last64(trim(GivenKey))
    /\ normalizePrivateKey(ReturnedKey) = [ok |-> TRUE, value |-> ReturnedKey]
    /\ client.privateKey = ReturnedKey
    /\ client.pc \notin {"idle", "normalizePrivateKey"} =>
         client.normalizedPrivateKey = ReturnedKey
    /\ client.result.error # "ValidationError"
    /\ client.pc = "done" => "getNetwork" \in Attempted

C16_Witness ==
  /\ ConfigReturned
  /\ ReturnedKey # GivenKey
  /\ ~startsWith(trim(GivenKey), <<"0", "x">>)
  /\ client.pc = "done"
  /\ client.result.kind = "returned"

====
